---- MODULE Spec2Model ----
(***************************************************************************)
(* Attendify live notification service                                     *)
(* (frontend/src/lib/notifications.js, the module the components import    *)
(* as "@/lib/notifications"): the module-level socket handle, reconnect    *)
(* timer handle and connected flag, the NotificationsService singleton     *)
(* (store, subscriber list), the browser objects it drives (WebSocket      *)
(* instances, timers, HTTP requests) and the backend they talk to.         *)
(* With it: the effect by which Header and Dashboard use the service, and   *)
(* the WebSocket effect the Sidebar component runs on its own.             *)
(***************************************************************************)
EXTENDS Integers, Sequences, FiniteSets, TLC

\* ---- bounds of the model ------------------------------------------------
MaxSockets == 3     \* WebSocket objects ever constructed
MaxTimers == 2      \* setTimeout handles ever created
MaxNotifs == 2      \* notifications the backend ever creates
MaxStore == 2       \* length of this.notifications
MaxSubs == 2        \* length of this.subscribers
MaxInFlight == 1    \* HTTP requests outstanding at once
MaxRacing == 2      \* HTTP requests outstanding at once where requests race
MaxEffects == 2     \* runs of the Sidebar WebSocket effect
MaxSidebarSockets == 3  \* WebSocket objects one run of that effect constructs

\* ---- values --------------------------------------------------------------
Null == 0
Roles == {"superadmin", "admin", "undefined"}
Callbacks == {"cbHeader", "cbDashboard"}
SockIds == 1..MaxSockets
NotifIds == 1..MaxNotifs
NoData == [n \in NotifIds |-> "none"]
\* timestamp strings formatDateTime accepts: "YYYY-MM-DDTHH:MM" (also with a
\* space) and "DD-MM-YYYY HH:MM"
TsFormats == {"iso", "dmy"}
\* base URLs: one the URL parser accepts ("http://127.0.0.1:8000") and one
\* it rejects ("http://exa mple.com")
ApiUrls == {"wellFormed", "malformed"}
EffectIds == 1..MaxEffects
\* a run of the Sidebar effect that has not started: its local ws and
\* heartbeat are unset
NoEffect ==
  [phase |-> "none", socks |-> <<>>, timers |-> 0, heartbeat |-> 0, intervals |-> {}]

VARIABLES
  ws,                  \* module-level socket handle (Null or a socket id)
  wsReconnectTimeout,  \* module-level timer handle (Null or a timer id)
  isConnected,         \* module-level connected flag
  notifications,       \* this.notifications, newest first
  subscribers,         \* this.subscribers, in registration order
  unsubFns,            \* callbacks whose unsubscribe closure has been handed out
  sockets,             \* browser: readyState of every WebSocket constructed
  frames,              \* browser: frames received on each socket, not yet dispatched
  timers,              \* browser: pending setTimeout handles
  timersMade,          \* browser: number of handles created so far
  reqs,                \* HTTP requests in flight, in the order they were issued
  server,              \* backend: status of every notification it holds
  tsFormat,            \* backend: the format it writes timestamps in
  apiUrl,              \* this.API_URL: whether the URL parser accepts it
  sidebar,             \* the Sidebar component's own WebSocket effect, per run
  calls,               \* subscriber invocations made by the last step, in order
  last                 \* the operation or event the last step handled

vars == <<ws, wsReconnectTimeout, isConnected, notifications, subscribers,
          unsubFns, sockets, frames, timers, timersMade, reqs, server,
          tsFormat, apiUrl, sidebar, calls, last>>

conn == <<ws, wsReconnectTimeout, isConnected, sockets, frames, timers, timersMade>>

\* ---- helpers -------------------------------------------------------------
Range(s) == {s[i] : i \in 1..Len(s)}

RemoveAt(s, i) == [j \in 1..(Len(s) - 1) |-> IF j < i THEN s[j] ELSE s[j + 1]]

Rec(n, st) == [id |-> n, status |-> st, ts |-> n]

\* what the last step handled: the operation or event, its arguments, for a
\* mark the store it found (pre), and for the outcome of a POST whether the
\* step right before it was the call that issued that POST (adj).  The field
\* cb is the callback of subscribe / unsubscribe; for the other steps it
\* holds a detail of what happened: the kind of request a POST outcome
\* belongs to, why a fetch failed, whether a close followed disconnect(),
\* whether connect() constructed a socket.
Act(a, r, c, n) ==
  [act |-> a, role |-> r, cb |-> c, n |-> n, pre |-> <<>>, adj |-> FALSE]

IssuedJustNow(i) ==
  last.act \in {"markAsRead", "markAllAsRead"} /\ i = Len(reqs)

Live(s) == sockets[s] \in {"connecting", "open"}

NextSock == Cardinality({s \in SockIds : sockets[s] # "none"}) + 1

\* Array.prototype.sort with the comparator new Date(b.timestamp) - new Date(a.timestamp)
RECURSIVE Insert(_, _)
Insert(r, s) ==
  IF s = <<>> THEN <<r>>
  ELSE IF r.ts > Head(s).ts THEN <<r>> \o s
  ELSE <<Head(s)>> \o Insert(r, Tail(s))

RECURSIVE SortDesc(_)
SortDesc(s) ==
  IF s = <<>> THEN <<>>
  ELSE Insert(Head(s), SortDesc(Tail(s)))

\* the array a GET /notifications response carries, in the order given
Body(data, order) ==
  [i \in 1..Len(order) |-> Rec(order[i], data[order[i]])]

Orders(data) ==
  LET ids == {n \in NotifIds : data[n] # "none"}
  IN {o \in UNION {[1..k -> ids] : k \in {Cardinality(ids)}} :
        \A i, j \in 1..Len(o) : i # j => o[i] # o[j]}

\* _notifySubscribers: every registered callback, in order, with the store
Notify_BeforeMutation(store) ==
  [i \in 1..Len(subscribers) |-> [cb |-> subscribers[i], snap |-> notifications]]

Notify(store) ==
  [i \in 1..Len(subscribers) |-> [cb |-> subscribers[i], snap |-> store]]

Req(k, n, p) == [kind |-> k, id |-> n, prev |-> p, answered |-> FALSE, data |-> NoData]

\* ---- initial state: module load and new NotificationsService() ----------
Init ==
  /\ ws = Null
  /\ wsReconnectTimeout = Null
  /\ isConnected = FALSE
  /\ notifications = <<>>
  /\ subscribers = <<>>
  /\ unsubFns = {}
  /\ sockets = [s \in SockIds |-> "none"]
  /\ frames = [s \in SockIds |-> <<>>]
  /\ timers = {}
  /\ timersMade = 0
  /\ reqs = <<>>
  /\ server = NoData
  /\ tsFormat = "iso"
  /\ apiUrl = "wellFormed"
  /\ sidebar = [e \in EffectIds |-> NoEffect]
  /\ calls = <<>>
  /\ last = Act("init", "", "", 0)

\* ---- subscribe / unsubscribe ---------------------------------------------
\* callback(this.notifications) inside subscribe()
FirstCall_None(cb, store) == <<>>

FirstCall(cb, store) == <<[cb |-> cb, snap |-> store]>>

Subscribe(cb) ==
  /\ Len(subscribers) < MaxSubs
  /\ subscribers' = Append(subscribers, cb)
  /\ unsubFns' = unsubFns \cup {cb}
  /\ calls' = FirstCall(cb, notifications)
  /\ last' = Act("subscribe", "", cb, 0)
  /\ UNCHANGED <<sidebar, apiUrl, tsFormat, conn, notifications, reqs, server>>

Filter_DropLast(s, cb) == SubSeq(s, 1, Len(s) - 1)

Filter(s, cb) == SelectSeq(s, LAMBDA x : x # cb)

Unsubscribe(cb) ==
  /\ cb \in unsubFns
  /\ subscribers' = Filter(subscribers, cb)
  /\ calls' = <<>>
  /\ last' = Act("unsubscribe", "", cb, 0)
  /\ UNCHANGED <<sidebar, apiUrl, tsFormat, conn, notifications, unsubFns, reqs, server>>

\* ---- fetch ---------------------------------------------------------------
StartFetch(rq) == Append(rq, Req("fetch", 0, <<>>))

Fetch ==
  /\ Len(reqs) < MaxInFlight
  /\ reqs' = StartFetch(reqs)
  /\ calls' = <<>>
  /\ last' = Act("fetch", "", "", 0)
  /\ UNCHANGED <<sidebar, apiUrl, tsFormat, conn, notifications, subscribers, unsubFns, server>>

\* the backend answers GET /notifications with what it holds at that moment
ServerAnswer(i) ==
  /\ i \in 1..Len(reqs)
  /\ reqs[i].kind = "fetch"
  /\ ~reqs[i].answered
  /\ reqs' = [reqs EXCEPT ![i].answered = TRUE, ![i].data = server]
  /\ calls' = <<>>
  /\ last' = Act("serverAnswer", "", "", 0)
  /\ UNCHANGED <<sidebar, apiUrl, tsFormat, conn, notifications, subscribers, unsubFns, server>>

\* new Date(timestamp): an ISO string gives its instant.  A "DD-MM-YYYY
\* HH:MM" string is not a format Date must parse: the engine gives Invalid
\* Date (the comparator is NaN, sort leaves the order as it is) or reads
\* another date out of it.
DateParses(fmt) == fmt = "iso"

\* data.map(...).sort((a, b) => new Date(b.timestamp) - new Date(a.timestamp))
FetchResult(body, fmt) == IF DateParses(fmt) THEN SortDesc(body) ELSE body

\* request i resolves while a fetch issued before it is still in flight
Overtakes(i) == \E j \in 1..(i - 1) : reqs[j].kind = "fetch"

FetchOk(i) ==
  /\ i \in 1..Len(reqs)
  /\ reqs[i].kind = "fetch"
  /\ reqs[i].answered
  /\ \E order \in Orders(reqs[i].data) :
       notifications' = FetchResult(Body(reqs[i].data, order), tsFormat)
  /\ reqs' = RemoveAt(reqs, i)
  /\ calls' = Notify(notifications')
  /\ last' = [Act("fetchOk", "", "", 0) EXCEPT !.adj = Overtakes(i)]
  /\ UNCHANGED <<sidebar, apiUrl, tsFormat, conn, subscribers, unsubFns, server>>

\* the catch block of fetch(): the request rejected (network error), or the
\* backend answered and res.json() rejected (unparseable body) or data.map
\* threw (the body is not an array)
FetchFailures == {"network", "unparseable", "notArray"}

StoreAfterFailedFetch_Cleared(store) == <<>>

StoreAfterFailedFetch(store) == store

FetchFail(i) ==
  /\ i \in 1..Len(reqs)
  /\ reqs[i].kind = "fetch"
  /\ \E why \in FetchFailures :
       /\ why # "network" => reqs[i].answered
       /\ last' = Act("fetchFail", "", why, 0)
  /\ notifications' = StoreAfterFailedFetch(notifications)
  /\ reqs' = RemoveAt(reqs, i)
  /\ calls' = <<>>
  /\ UNCHANGED <<sidebar, apiUrl, tsFormat, conn, subscribers, unsubFns, server>>

\* ---- markAsRead / markAllAsRead ----------------------------------------
\* const prev = [...this.notifications]
Snapshot(store) == store

MarkOne(store, id) ==
  [i \in 1..Len(store) |->
     IF store[i].id = id THEN [store[i] EXCEPT !.status = "read"] ELSE store[i]]

MarkAll_FirstOnly(store) ==
  [i \in 1..Len(store) |->
     IF i = 1 THEN [store[i] EXCEPT !.status = "read"] ELSE store[i]]

MarkAll(store) ==
  [i \in 1..Len(store) |-> [store[i] EXCEPT !.status = "read"]]

MarkAsRead(id) ==
  /\ Len(reqs) < MaxInFlight
  /\ notifications' = MarkOne(notifications, id)
  /\ reqs' = Append(reqs, Req("mark", id, Snapshot(notifications)))
  /\ calls' = Notify(notifications')
  /\ last' = [Act("markAsRead", "", "", id) EXCEPT !.pre = notifications]
  /\ UNCHANGED <<sidebar, apiUrl, tsFormat, conn, subscribers, unsubFns, server>>

MarkAllAsRead ==
  /\ Len(reqs) < MaxInFlight
  /\ notifications' = MarkAll(notifications)
  /\ reqs' = Append(reqs, Req("markAll", 0, Snapshot(notifications)))
  /\ calls' = Notify(notifications')
  /\ last' = [Act("markAllAsRead", "", "", 0) EXCEPT !.pre = notifications]
  /\ UNCHANGED <<sidebar, apiUrl, tsFormat, conn, subscribers, unsubFns, server>>

\* backend: POST /notifications/read/{id} and POST /notifications/read-all
ServerApply(r) ==
  [n \in NotifIds |->
     IF server[n] # "none" /\ (r.kind = "markAll" \/ r.id = n) THEN "read"
     ELSE server[n]]

IsPost(i) == i \in 1..Len(reqs) /\ reqs[i].kind \in {"mark", "markAll"}

\* the awaited POST resolves with a 2xx response: nothing follows the await
PostOk(i) ==
  /\ IsPost(i)
  /\ server' = ServerApply(reqs[i])
  /\ reqs' = RemoveAt(reqs, i)
  /\ calls' = <<>>
  /\ last' = [Act("postOk", "", reqs[i].kind, reqs[i].id) EXCEPT !.adj = IssuedJustNow(i)]
  /\ UNCHANGED <<sidebar, apiUrl, tsFormat, conn, notifications, subscribers, unsubFns>>

\* the awaited POST resolves with a non-2xx response: fetch() does not reject,
\* the response is not inspected, nothing follows the await
PostHttpError(i) ==
  /\ IsPost(i)
  /\ reqs' = RemoveAt(reqs, i)
  /\ calls' = <<>>
  /\ last' = [Act("postHttpError", "", reqs[i].kind, reqs[i].id)
                EXCEPT !.adj = IssuedJustNow(i),
                       !.pre = IF IssuedJustNow(i) THEN last.pre ELSE <<>>]
  /\ UNCHANGED <<sidebar, apiUrl, tsFormat, conn, notifications, subscribers, unsubFns, server>>

\* the awaited POST rejects (network error): the catch block restores prev.
\* The request may or may not have reached the backend before the failure.
Rollback_NoRestore(r) == notifications

Rollback(r) == r.prev

PostFail(i) ==
  /\ IsPost(i)
  /\ \E reached \in BOOLEAN :
       server' = IF reached THEN ServerApply(reqs[i]) ELSE server
  /\ notifications' = Rollback(reqs[i])
  /\ reqs' = RemoveAt(reqs, i)
  /\ calls' = Notify(notifications')
  /\ last' = [Act("postFail", "", reqs[i].kind, reqs[i].id)
                EXCEPT !.adj = IssuedJustNow(i),
                       !.pre = IF IssuedJustNow(i) THEN last.pre ELSE <<>>]
  /\ UNCHANGED <<sidebar, apiUrl, tsFormat, conn, subscribers, unsubFns>>

\* ---- connect / disconnect ------------------------------------------------
\* the two guards at the top of connect()
RoleAllowed_AnyAdmin(role) == role \in {"superadmin", "admin"}

RoleAllowed(role) == role = "superadmin"

AlreadyConnected_GuardDropped == FALSE

AlreadyConnected == ws # Null /\ isConnected

\* new WebSocket(wsUrl) throws a SyntaxError when the URL parser rejects
\* wsUrl; startsWith / replace leave a malformed base URL malformed
UrlParses(url) == url = "wellFormed"

\* connect() has no try around new WebSocket: the exception leaves connect()
ConnectThrows(role) ==
  RoleAllowed(role) /\ ~AlreadyConnected /\ ~UrlParses(apiUrl)

\* connect(userRole): the part that runs synchronously in the caller
ConnectBody(role) ==
  IF ~RoleAllowed(role) \/ AlreadyConnected
  THEN UNCHANGED <<ws, sockets>>
  ELSE IF ~UrlParses(apiUrl)
  THEN UNCHANGED <<ws, sockets>>
  ELSE /\ NextSock <= MaxSockets
       /\ ws' = NextSock
       /\ sockets' = [sockets EXCEPT ![NextSock] = "connecting"]

\* what a run of connect() amounted to
ConnectOutcome(role) ==
  IF sockets' # sockets THEN "constructed"
  ELSE IF ConnectThrows(role) THEN "threw"
  ELSE ""

Connect(role) ==
  /\ ConnectBody(role)
  /\ calls' = <<>>
  /\ last' = Act("connect", role, ConnectOutcome(role), 0)
  /\ UNCHANGED <<sidebar, apiUrl, tsFormat, wsReconnectTimeout, isConnected,
                 frames, timers, timersMade,
                 notifications, subscribers, unsubFns, reqs, server>>

\* clearTimeout(wsReconnectTimeout) behind "if (wsReconnectTimeout)"
ClearReconnect(tm) ==
  IF wsReconnectTimeout # Null THEN tm \ {wsReconnectTimeout} ELSE tm

\* WebSocket.close(): a connecting or open socket starts closing, its close
\* event is dispatched later; frames are no longer dispatched once closing
CloseSocket(sk, s) ==
  IF sk[s] \in {"connecting", "open"} THEN [sk EXCEPT ![s] = "closing"] ELSE sk

\* disconnect() does not touch the requests that are in flight
InFlightAfterDisconnect_Cancelled(rq) == <<>>

InFlightAfterDisconnect(rq) == rq

\* disconnect(): everything is behind "if (ws)"
DisconnectBody ==
  IF ws # Null
  THEN /\ sockets' = CloseSocket(sockets, ws)
       /\ frames' = [frames EXCEPT ![ws] = <<>>]
       /\ ws' = Null
       /\ isConnected' = FALSE
       /\ timers' = ClearReconnect(timers)
  ELSE UNCHANGED <<sockets, frames, ws, isConnected, timers>>

Disconnect ==
  /\ DisconnectBody
  /\ calls' = <<>>
  /\ reqs' = InFlightAfterDisconnect(reqs)
  /\ last' = Act("disconnect", "", "", 0)
  /\ UNCHANGED <<sidebar, apiUrl, tsFormat, wsReconnectTimeout, timersMade, notifications,
                 subscribers, unsubFns, server>>

\* ---- socket events -------------------------------------------------------
\* ws.onopen of socket s
SocketOpen(s) ==
  /\ sockets[s] = "connecting"
  /\ Len(reqs) < MaxInFlight
  /\ sockets' = [sockets EXCEPT ![s] = "open"]
  /\ isConnected' = TRUE
  /\ timers' = ClearReconnect(timers)
  /\ reqs' = StartFetch(reqs)
  /\ calls' = <<>>
  /\ last' = Act("open", "", "", s)
  /\ UNCHANGED <<sidebar, apiUrl, tsFormat, ws, wsReconnectTimeout, frames,
                 timersMade, notifications,
                 subscribers, unsubFns, server>>

\* ws.onmessage of socket s with a frame that parses
Prepend_Append(rec, store) == store \o <<rec>>

Prepend(rec, store) == <<rec>> \o store

SocketMessage(s) ==
  /\ sockets[s] = "open"
  /\ frames[s] # <<>>
  /\ Len(notifications) < MaxStore
  /\ notifications' = Prepend(Rec(Head(frames[s]), "unread"), notifications)
  /\ frames' = [frames EXCEPT ![s] = Tail(frames[s])]
  /\ calls' = Notify(notifications')
  /\ last' = Act("message", "", "", s)
  /\ UNCHANGED <<sidebar, apiUrl, tsFormat, ws, wsReconnectTimeout, isConnected, sockets, timers,
                 timersMade, subscribers, unsubFns, reqs, server>>

\* ws.onmessage of socket s with a frame JSON.parse rejects
StoreAfterBadFrame_Cleared(store) == <<>>

StoreAfterBadFrame(store) == store

SocketBadMessage(s) ==
  /\ sockets[s] = "open"
  /\ notifications' = StoreAfterBadFrame(notifications)
  /\ calls' = <<>>
  /\ last' = Act("badMessage", "", "", s)
  /\ UNCHANGED <<sidebar, apiUrl, tsFormat, conn, subscribers, unsubFns, reqs, server>>

\* ws.onclose of socket s (after a failed open, a drop, or close()); onerror,
\* which may precede it, only logs.  The handler leaves ws as it is.
AfterCloseHandle(s) == ws

ScheduleReconnect(tm) == tm \cup {timersMade + 1}

SocketClose(s) ==
  /\ sockets[s] \in {"connecting", "open", "closing"}
  /\ timersMade < MaxTimers
  /\ sockets' = [sockets EXCEPT ![s] = "closed"]
  /\ frames' = [frames EXCEPT ![s] = <<>>]
  /\ isConnected' = FALSE
  /\ ws' = AfterCloseHandle(s)
  /\ timers' = ScheduleReconnect(timers)
  /\ timersMade' = timersMade + 1
  /\ wsReconnectTimeout' = timersMade + 1
  /\ calls' = <<>>
  /\ last' = Act("close", "", IF sockets[s] = "closing" THEN "closedByCaller" ELSE "dropped", s)
  /\ UNCHANGED <<sidebar, apiUrl, tsFormat, notifications, subscribers, unsubFns, reqs, server>>

\* the reconnect timer fires: () => this.connect(userRole), userRole being
\* the role the closed socket was connected with, which passed the guard
TimerFire(t) ==
  /\ t \in timers
  /\ timers' = timers \ {t}
  /\ ConnectBody("superadmin")
  /\ calls' = <<>>
  /\ last' = Act("timer", "superadmin", ConnectOutcome("superadmin"), t)
  /\ UNCHANGED <<sidebar, apiUrl, tsFormat, wsReconnectTimeout, isConnected, frames, timersMade,
                 notifications, subscribers, unsubFns, reqs, server>>

\* ---- backend -------------------------------------------------------------
\* a new notification is created and pushed to every open socket
ServerNotify ==
  /\ \E n \in NotifIds :
       /\ server[n] = "none"
       /\ \A m \in NotifIds : m < n => server[m] # "none"
       /\ server' = [server EXCEPT ![n] = "unread"]
       /\ frames' = [s \in SockIds |->
                       IF sockets[s] = "open" THEN Append(frames[s], n) ELSE frames[s]]
  /\ calls' = <<>>
  /\ last' = Act("serverNotify", "", "", 0)
  /\ UNCHANGED <<sidebar, apiUrl, tsFormat, ws, wsReconnectTimeout, isConnected, sockets, timers,
                 timersMade, notifications, subscribers, unsubFns, reqs>>

\* ---- the components that show notifications -------------------------------
\* the effect of Header and of Dashboard, for a superadmin: fetch(),
\* subscribe(callback), connect(user.role), in one synchronous run
Mount(cb) ==
  /\ cb \notin Range(subscribers)
  /\ Len(subscribers) < MaxSubs
  /\ Len(reqs) < MaxInFlight
  /\ reqs' = StartFetch(reqs)
  /\ subscribers' = Append(subscribers, cb)
  /\ unsubFns' = unsubFns \cup {cb}
  /\ calls' = FirstCall(cb, notifications)
  /\ ConnectBody("superadmin")
  /\ last' = Act("mount", "superadmin", cb, 0)
  /\ UNCHANGED <<sidebar, apiUrl, tsFormat, wsReconnectTimeout, isConnected, frames,
                 timers, timersMade, notifications, server>>

\* the cleanup of that effect: unsubscribe(); disconnect()
Unmount(cb) ==
  /\ cb \in Range(subscribers)
  /\ subscribers' = Filter(subscribers, cb)
  /\ DisconnectBody
  /\ calls' = <<>>
  /\ last' = Act("unmount", "", cb, 0)
  /\ UNCHANGED <<sidebar, apiUrl, tsFormat, wsReconnectTimeout, timersMade, notifications,
                 unsubFns, reqs, server>>

\* ---- racing requests ------------------------------------------------------
\* fetch() and markAsRead(id) as above, called while up to MaxRacing requests
\* are in flight (both components call fetch() when they mount; a user
\* clicks two notifications in a row)
FetchRacing ==
  /\ Len(reqs) < MaxRacing
  /\ reqs' = StartFetch(reqs)
  /\ calls' = <<>>
  /\ last' = Act("fetch", "", "", 0)
  /\ UNCHANGED <<sidebar, apiUrl, tsFormat, conn, notifications, subscribers, unsubFns, server>>

MarkAsReadRacing(id) ==
  /\ Len(reqs) < MaxRacing
  /\ notifications' = MarkOne(notifications, id)
  /\ reqs' = Append(reqs, Req("mark", id, Snapshot(notifications)))
  /\ calls' = Notify(notifications')
  /\ last' = [Act("markAsRead", "", "", id) EXCEPT !.pre = notifications]
  /\ UNCHANGED <<sidebar, apiUrl, tsFormat, conn, subscribers, unsubFns, server>>

\* ---- Sidebar: the component's own WebSocket effect ------------------------
\* (components/layouts/Sidebar.jsx).  Every run of the effect has its own
\* local ws and heartbeat; socks lists the readyState of the sockets the run
\* constructed, ws being the last of them; timers counts its pending
\* setTimeout(connectWS, 3000); the interval a socket's onopen creates is
\* named after that socket.
service == <<ws, wsReconnectTimeout, isConnected, notifications, subscribers,
             unsubFns, sockets, frames, timers, timersMade, reqs, server,
             tsFormat, apiUrl, calls, last>>

\* connectWS(): ws = new WebSocket(wsUrl)
ConnectWS(eff) == [eff EXCEPT !.socks = Append(@, "connecting")]

\* ws.close() on the socket the local ws refers to
CloseCurrent(eff) ==
  IF eff.socks # <<>> /\ eff.socks[Len(eff.socks)] \in {"connecting", "open"}
  THEN [eff EXCEPT !.socks[Len(eff.socks)] = "closing"]
  ELSE eff

\* clearInterval(heartbeat)
ClearHeartbeat(eff) == [eff EXCEPT !.intervals = @ \ {eff.heartbeat}]

\* the effect runs (user is a superadmin): React has run the cleanup of the
\* previous run before
SidebarEffect(e) ==
  /\ sidebar[e].phase = "none"
  /\ \A d \in EffectIds : d < e => sidebar[d].phase = "cleaned"
  /\ sidebar' = [sidebar EXCEPT ![e] = ConnectWS([@ EXCEPT !.phase = "active"])]
  /\ UNCHANGED service

\* ws.onopen of socket k of run e
SidebarOpen(e, k) ==
  /\ k \in 1..Len(sidebar[e].socks)
  /\ sidebar[e].socks[k] = "connecting"
  /\ sidebar' = [sidebar EXCEPT ![e].socks[k] = "open",
                                ![e].heartbeat = k,
                                ![e].intervals = @ \cup {k}]
  /\ UNCHANGED service

\* ws.onerror of socket k of run e: ws.close(); the browser closes the
\* failed socket itself
SidebarError(e, k) ==
  /\ k \in 1..Len(sidebar[e].socks)
  /\ sidebar[e].socks[k] \in {"connecting", "open"}
  /\ sidebar' = [sidebar EXCEPT ![e] = CloseCurrent([@ EXCEPT !.socks[k] = "closing"])]
  /\ UNCHANGED service

\* ws.onclose of socket k of run e
AfterSidebarClose(eff) == [ClearHeartbeat(eff) EXCEPT !.timers = @ + 1]

SidebarClose(e, k) ==
  /\ k \in 1..Len(sidebar[e].socks)
  /\ sidebar[e].socks[k] \in {"connecting", "open", "closing"}
  /\ sidebar' = [sidebar EXCEPT ![e] = AfterSidebarClose([@ EXCEPT !.socks[k] = "closed"])]
  /\ UNCHANGED service

\* a pending setTimeout(connectWS, 3000) of run e fires
SidebarTimer(e) ==
  /\ sidebar[e].timers > 0
  /\ Len(sidebar[e].socks) < MaxSidebarSockets
  /\ sidebar' = [sidebar EXCEPT ![e] = ConnectWS([@ EXCEPT !.timers = @ - 1])]
  /\ UNCHANGED service

\* the cleanup the effect returned: if (ws) ws.close(); clearInterval(heartbeat)
SidebarCleanup(e) ==
  /\ sidebar[e].phase = "active"
  /\ sidebar' = [sidebar EXCEPT ![e] = ClearHeartbeat(CloseCurrent([@ EXCEPT !.phase = "cleaned"]))]
  /\ UNCHANGED service

\* ---- specifications ------------------------------------------------------
\* The whole service: every caller, browser event and backend step.
Next ==
  \/ \E cb \in Callbacks : Subscribe(cb)
  \/ \E cb \in Callbacks : Unsubscribe(cb)
  \/ Fetch
  \/ \E i \in 1..MaxInFlight : ServerAnswer(i)
  \/ \E i \in 1..MaxInFlight : FetchOk(i)
  \/ \E i \in 1..MaxInFlight : FetchFail(i)
  \/ \E id \in NotifIds : MarkAsRead(id)
  \/ MarkAllAsRead
  \/ \E i \in 1..MaxInFlight : PostOk(i)
  \/ \E i \in 1..MaxInFlight : PostHttpError(i)
  \/ \E i \in 1..MaxInFlight : PostFail(i)
  \/ \E role \in Roles : Connect(role)
  \/ Disconnect
  \/ \E s \in SockIds : SocketOpen(s)
  \/ \E s \in SockIds : SocketMessage(s)
  \/ \E s \in SockIds : SocketBadMessage(s)
  \/ \E s \in SockIds : SocketClose(s)
  \/ \E t \in 1..MaxTimers : TimerFire(t)
  \/ ServerNotify
  \/ \E cb \in Callbacks : Mount(cb)
  \/ \E cb \in Callbacks : Unmount(cb)
  \/ FetchRacing
  \/ \E id \in NotifIds : MarkAsReadRacing(id)
  \/ \E e \in EffectIds : SidebarEffect(e)
  \/ \E e \in EffectIds, k \in 1..MaxSidebarSockets : SidebarOpen(e, k)
  \/ \E e \in EffectIds, k \in 1..MaxSidebarSockets : SidebarError(e, k)
  \/ \E e \in EffectIds, k \in 1..MaxSidebarSockets : SidebarClose(e, k)
  \/ \E e \in EffectIds : SidebarTimer(e)
  \/ \E e \in EffectIds : SidebarCleanup(e)

Spec == Init /\ [][Next]_vars

\* The specifications below explore parts of Spec: each starts in a state
\* Spec reaches and takes a subset of its steps.
\* Connection lifecycle: every caller and browser event that touches the
\* socket handle, the timer handle or the flag, and the fetches onopen issues.
\* The backend holds no notifications and nobody subscribes or marks.
NextConn ==
  \/ \E role \in Roles : Connect(role)
  \/ Disconnect
  \/ \E s \in SockIds : SocketOpen(s)
  \/ \E s \in SockIds : SocketBadMessage(s)
  \/ \E s \in SockIds : SocketClose(s)
  \/ \E t \in 1..MaxTimers : TimerFire(t)
  \/ \E i \in 1..MaxInFlight : ServerAnswer(i)
  \/ \E i \in 1..MaxInFlight : FetchOk(i)
  \/ \E i \in 1..MaxInFlight : FetchFail(i)

SpecConn == Init /\ [][NextConn]_vars

\* Store and reconciler: the service after the two components that show
\* notifications have subscribed and the first connect("superadmin") has run,
\* with that one socket staying up.
InitStore ==
  /\ ws = 1
  /\ wsReconnectTimeout = Null
  /\ isConnected = FALSE
  /\ notifications = <<>>
  /\ subscribers = <<"cbHeader", "cbDashboard">>
  /\ unsubFns = {"cbHeader", "cbDashboard"}
  /\ sockets = [s \in SockIds |-> IF s = 1 THEN "connecting" ELSE "none"]
  /\ frames = [s \in SockIds |-> <<>>]
  /\ timers = {}
  /\ timersMade = 0
  /\ reqs = <<>>
  /\ server = NoData
  /\ tsFormat = "iso"
  /\ apiUrl = "wellFormed"
  /\ sidebar = [e \in EffectIds |-> NoEffect]
  /\ calls = <<>>
  /\ last = Act("connect", "superadmin", "constructed", 0)

NextStore ==
  \/ Fetch
  \/ \E i \in 1..MaxInFlight : ServerAnswer(i)
  \/ \E i \in 1..MaxInFlight : FetchOk(i)
  \/ \E i \in 1..MaxInFlight : FetchFail(i)
  \/ \E id \in NotifIds : MarkAsRead(id)
  \/ MarkAllAsRead
  \/ \E i \in 1..MaxInFlight : PostOk(i)
  \/ \E i \in 1..MaxInFlight : PostHttpError(i)
  \/ \E i \in 1..MaxInFlight : PostFail(i)
  \/ \E s \in SockIds : SocketOpen(s)
  \/ \E s \in SockIds : SocketMessage(s)
  \/ ServerNotify

SpecStore == InitStore /\ [][NextStore]_vars

\* Marking single notifications: the same start as the store specification;
\* the records come from the fetch onopen issues and from socket frames, and
\* the caller marks them one by one.
NextMark ==
  \/ \E s \in SockIds : SocketOpen(s)
  \/ \E i \in 1..MaxInFlight : ServerAnswer(i)
  \/ \E i \in 1..MaxInFlight : FetchOk(i)
  \/ ServerNotify
  \/ \E s \in SockIds : SocketMessage(s)
  \/ \E id \in NotifIds : MarkAsRead(id)
  \/ \E i \in 1..MaxInFlight : PostOk(i)
  \/ \E i \in 1..MaxInFlight : PostHttpError(i)
  \/ \E i \in 1..MaxInFlight : PostFail(i)

SpecMark == InitStore /\ [][NextMark]_vars

\* Fan-out: the service right after its first connect("superadmin"), with
\* components subscribing and unsubscribing while the store changes.
InitFan ==
  /\ ws = 1
  /\ wsReconnectTimeout = Null
  /\ isConnected = FALSE
  /\ notifications = <<>>
  /\ subscribers = <<>>
  /\ unsubFns = {}
  /\ sockets = [s \in SockIds |-> IF s = 1 THEN "connecting" ELSE "none"]
  /\ frames = [s \in SockIds |-> <<>>]
  /\ timers = {}
  /\ timersMade = 0
  /\ reqs = <<>>
  /\ server = NoData
  /\ tsFormat = "iso"
  /\ apiUrl = "wellFormed"
  /\ sidebar = [e \in EffectIds |-> NoEffect]
  /\ calls = <<>>
  /\ last = Act("connect", "superadmin", "constructed", 0)

NextFan ==
  \/ \E cb \in Callbacks : Subscribe(cb)
  \/ \E cb \in Callbacks : Unsubscribe(cb)
  \/ \E s \in SockIds : SocketOpen(s)
  \/ \E i \in 1..MaxInFlight : ServerAnswer(i)
  \/ \E i \in 1..MaxInFlight : FetchOk(i)
  \/ \E i \in 1..MaxInFlight : FetchFail(i)
  \/ \E s \in SockIds : SocketMessage(s)
  \/ ServerNotify
  \/ MarkAllAsRead
  \/ \E i \in 1..MaxInFlight : PostOk(i)
  \/ \E i \in 1..MaxInFlight : PostFail(i)

SpecFan == InitFan /\ [][NextFan]_vars

\* Feed: the two ways records enter the store, GET /notifications and socket
\* frames, with both components subscribed and the first socket staying up.
\* The backend writes its timestamps in either format formatDateTime accepts.
InitFeed ==
  /\ ws = 1
  /\ wsReconnectTimeout = Null
  /\ isConnected = FALSE
  /\ notifications = <<>>
  /\ subscribers = <<"cbHeader", "cbDashboard">>
  /\ unsubFns = {"cbHeader", "cbDashboard"}
  /\ sockets = [s \in SockIds |-> IF s = 1 THEN "connecting" ELSE "none"]
  /\ frames = [s \in SockIds |-> <<>>]
  /\ timers = {}
  /\ timersMade = 0
  /\ reqs = <<>>
  /\ server = NoData
  /\ tsFormat \in TsFormats
  /\ apiUrl = "wellFormed"
  /\ sidebar = [e \in EffectIds |-> NoEffect]
  /\ calls = <<>>
  /\ last = Act("connect", "superadmin", "constructed", 0)

NextFeed ==
  \/ Fetch
  \/ \E i \in 1..MaxInFlight : ServerAnswer(i)
  \/ \E i \in 1..MaxInFlight : FetchOk(i)
  \/ \E i \in 1..MaxInFlight : FetchFail(i)
  \/ \E s \in SockIds : SocketOpen(s)
  \/ \E s \in SockIds : SocketMessage(s)
  \/ \E s \in SockIds : SocketBadMessage(s)
  \/ ServerNotify

SpecFeed == InitFeed /\ [][NextFeed]_vars

\* Teardown: both components subscribed and the first socket constructed;
\* callers disconnect and connect again while the fetch onopen issued is in
\* flight and the backend creates notifications.  Close events and frames
\* are left to the connection and feed specifications.
NextTeardown ==
  \/ \E s \in SockIds : SocketOpen(s)
  \/ ServerNotify
  \/ \E i \in 1..MaxInFlight : ServerAnswer(i)
  \/ \E i \in 1..MaxInFlight : FetchOk(i)
  \/ Disconnect
  \/ Connect("superadmin")

SpecTeardown == InitStore /\ [][NextTeardown]_vars

\* Racing fetches: the store specification's start, with fetch() called
\* while another GET is in flight.
NextFetchRace ==
  \/ \E s \in SockIds : SocketOpen(s)
  \/ ServerNotify
  \/ FetchRacing
  \/ \E i \in 1..MaxRacing : ServerAnswer(i)
  \/ \E i \in 1..MaxRacing : FetchOk(i)
  \/ \E i \in 1..MaxRacing : FetchFail(i)

SpecFetchRace == InitStore /\ [][NextFetchRace]_vars

\* Racing marks: the same start, with markAsRead(id) called while another
\* POST is in flight.
NextMarkRace ==
  \/ \E s \in SockIds : SocketOpen(s)
  \/ ServerNotify
  \/ \E s \in SockIds : SocketMessage(s)
  \/ \E i \in 1..MaxRacing : ServerAnswer(i)
  \/ \E i \in 1..MaxRacing : FetchOk(i)
  \/ \E id \in NotifIds : MarkAsReadRacing(id)
  \/ \E i \in 1..MaxRacing : PostOk(i)
  \/ \E i \in 1..MaxRacing : PostFail(i)

SpecMarkRace == InitStore /\ [][NextMarkRace]_vars

\* Components mounting and unmounting on a fresh service, with the browser's
\* guarantees: a pending timer fires, and a socket that close() was called
\* on gets its close event.  A socket that is up may stay up for ever.
NextMount ==
  \/ \E cb \in Callbacks : Mount(cb)
  \/ \E cb \in Callbacks : Unmount(cb)
  \/ \E s \in SockIds : SocketOpen(s)
  \/ \E s \in SockIds : SocketClose(s)
  \/ \E t \in 1..MaxTimers : TimerFire(t)
  \/ \E i \in 1..MaxInFlight : ServerAnswer(i)
  \/ \E i \in 1..MaxInFlight : FetchOk(i)
  \/ \E i \in 1..MaxInFlight : FetchFail(i)

SpecMountFair ==
  /\ Init
  /\ [][NextMount]_vars
  /\ \A t \in 1..MaxTimers : WF_vars(TimerFire(t))
  /\ \A s \in SockIds : WF_vars(sockets[s] = "closing" /\ SocketClose(s))

\* Connection lifecycle of a service constructed with either kind of base URL.
InitUrl ==
  /\ ws = Null
  /\ wsReconnectTimeout = Null
  /\ isConnected = FALSE
  /\ notifications = <<>>
  /\ subscribers = <<>>
  /\ unsubFns = {}
  /\ sockets = [s \in SockIds |-> "none"]
  /\ frames = [s \in SockIds |-> <<>>]
  /\ timers = {}
  /\ timersMade = 0
  /\ reqs = <<>>
  /\ server = NoData
  /\ tsFormat = "iso"
  /\ apiUrl \in ApiUrls
  /\ sidebar = [e \in EffectIds |-> NoEffect]
  /\ calls = <<>>
  /\ last = Act("init", "", "", 0)

SpecUrl == InitUrl /\ [][NextConn]_vars

\* The Sidebar's effect alone: the service is not touched.
NextSidebar ==
  \/ \E e \in EffectIds : SidebarEffect(e)
  \/ \E e \in EffectIds, k \in 1..MaxSidebarSockets : SidebarOpen(e, k)
  \/ \E e \in EffectIds, k \in 1..MaxSidebarSockets : SidebarError(e, k)
  \/ \E e \in EffectIds, k \in 1..MaxSidebarSockets : SidebarClose(e, k)
  \/ \E e \in EffectIds : SidebarTimer(e)
  \/ \E e \in EffectIds : SidebarCleanup(e)

SpecSidebar == Init /\ [][NextSidebar]_vars

\* Connection lifecycle with the browser's timers: a timer set with
\* setTimeout fires once its delay has elapsed unless clearTimeout cancelled
\* it.  Nothing else is forced to happen: a socket may stay up for ever.
SpecConnFair ==
  /\ Init
  /\ [][NextConn]_vars
  /\ \A t \in 1..MaxTimers : WF_vars(TimerFire(t))

\* ---- connection lifecycle: properties -----------------------------------
LiveSockets == {s \in SockIds : Live(s)}

\* C1: in every reachable state at most one WebSocket is connecting or open.
C1_AtMostOneLiveSocket == Cardinality(LiveSockets) <= 1

\* C2: the close event of a socket that disconnect() closed schedules no
\* reconnect timer, and after disconnect() no socket is constructed until
\* some caller invokes connect(role): a timer never constructs one.
C2_DisconnectSuppressesReconnect ==
  [][ /\ \A s \in SockIds :
           (sockets[s] = "closing" /\ sockets'[s] = "closed") => timers' = timers
      /\ (last'.act = "timer" /\ ws = Null) => sockets' = sockets ]_vars

\* C3: at most one reconnect timer is pending at any time, and exactly one
\* right after a socket close event.
C3_AtMostOneReconnectTimer ==
  /\ Cardinality(timers) <= 1
  /\ last.act = "close" => Cardinality(timers) = 1

\* C4: connect("superadmin") while a socket exists and the flag says
\* connected constructs no socket and issues no request, and leaves the
\* flag, the socket handle and the timer handle as they were.
C4_ConnectWhileConnectedIsNoOp ==
  [][ (last'.act = "connect" /\ last'.role = "superadmin" /\ ws # Null /\ isConnected)
        => /\ sockets' = sockets
           /\ reqs' = reqs
           /\ isConnected' = isConnected
           /\ ws' = ws
           /\ wsReconnectTimeout' = wsReconnectTimeout
           /\ timers' = timers ]_vars

C4_Witness ==
  /\ last.act = "connect"
  /\ last.role = "superadmin"
  /\ ws # Null
  /\ isConnected
  /\ NextSock <= MaxSockets

\* C5: connect(role) with any role other than "superadmin" constructs no
\* socket, issues no request and schedules no timer, whatever the state.
C5_OtherRolesNeverConnect ==
  [][ (last'.act = "connect" /\ last'.role # "superadmin")
        => /\ sockets' = sockets
           /\ ws' = ws
           /\ reqs' = reqs
           /\ timers' = timers
           /\ timersMade' = timersMade ]_vars

C5_Witness ==
  /\ last.act = "connect"
  /\ last.role \in {"admin", "undefined"}
  /\ ~(ws # Null /\ isConnected)
  /\ NextSock <= MaxSockets

\* ---- store, reconciler and fan-out: properties ---------------------------
\* every callback registered in subs was invoked exactly once, in
\* registration order, each with the same snapshot
Delivered(c, subs, snap) ==
  /\ Len(c) = Len(subs)
  /\ \A k \in 1..Len(subs) : c[k].cb = subs[k] /\ c[k].snap = snap

Called(c) == {c[k].cb : k \in 1..Len(c)}

HasStatus(store, n, st) ==
  \E k \in 1..Len(store) : store[k].id = n /\ store[k].status = st

Without(s, cb) == SelectSeq(s, LAMBDA x : x # cb)

MutationActs == {"message", "fetchOk", "markAsRead", "markAllAsRead", "postFail"}

\* C6: when markAsRead(id) is called and its POST then rejects with nothing
\* in between, the store is again the sequence it was before the call, and
\* every subscriber was invoked exactly twice: by the call with the optimistic
\* snapshot (the records with that id read, the rest as before), and by the
\* failure with the restored sequence.
C6_FailedMarkAsReadRestores ==
  [][ (last'.act = "postFail" /\ last'.cb = "mark" /\ last'.adj)
        => /\ notifications' = last.pre
           /\ Len(notifications) = Len(last.pre)
           /\ \A k \in 1..Len(last.pre) :
                notifications[k] = IF last.pre[k].id = last.n
                                   THEN [last.pre[k] EXCEPT !.status = "read"]
                                   ELSE last.pre[k]
           /\ Delivered(calls, subscribers, notifications)
           /\ Delivered(calls', subscribers, last.pre) ]_vars

C6_Witness ==
  /\ last.act = "postFail"
  /\ last.cb = "mark"
  /\ last.adj
  /\ HasStatus(notifications, last.n, "unread")
  /\ Len(calls) >= 2

\* C7: when the POST of markAsRead or markAllAsRead fails, by rejecting or by
\* a non-2xx response, with nothing in between, the store is again the
\* sequence it was before the call and the subscribers are invoked with it.
C7_AnyFailureRollsBack ==
  [][ (last'.act \in {"postFail", "postHttpError"} /\ last'.adj /\ notifications # last.pre)
        => /\ notifications' = last.pre
           /\ Delivered(calls', subscribers, last.pre) ]_vars

\* C8: a notification that is read in the store never becomes unread again,
\* except by the rollback of a failed markAsRead / markAllAsRead.
C8_ReadNeverRevertsExceptRollback ==
  [][ \A n \in NotifIds :
        ( /\ HasStatus(notifications, n, "read")
          /\ HasStatus(notifications', n, "unread")
          /\ ~HasStatus(notifications', n, "read") )
          => last'.act = "postFail" ]_vars

\* C9: handling a valid inbound frame invokes every registered callback once,
\* each with the same snapshot: the new record at index 0, followed by the
\* previous store in the same order.
C9_FrameFansOutToAll ==
  [][ last'.act = "message"
        => /\ Delivered(calls', subscribers, notifications')
           /\ Len(notifications') = Len(notifications) + 1
           /\ notifications'[1] = Rec(Head(frames[last'.n]), "unread")
           /\ Tail(notifications') = notifications ]_vars

C9_Witness ==
  /\ last.act = "message"
  /\ Len(subscribers) = 2
  /\ subscribers[1] # subscribers[2]
  /\ Len(calls) = 2
  /\ Len(notifications) = 2
  /\ notifications[1] # notifications[2]

\* C10: a callback whose unsubscribe function has been called (and that has
\* not been subscribed again) is invoked by no step, while every mutation of
\* the store invokes all callbacks still registered; the unsubscribe function
\* removes that callback only, and calling it again changes nothing.
C10_UnsubscribedNotInvoked ==
  [][ /\ \A cb \in Callbacks :
           ( /\ cb \in unsubFns
             /\ cb \notin Range(subscribers)
             /\ ~(last'.act = "subscribe" /\ last'.cb = cb) )
             => cb \notin Called(calls')
      /\ last'.act \in MutationActs => Range(subscribers) \subseteq Called(calls')
      /\ last'.act = "unsubscribe"
           => /\ last'.cb \notin Range(subscribers')
              /\ Without(subscribers', last'.cb) = Without(subscribers, last'.cb)
              /\ last'.cb \notin Range(subscribers)
                   => UNCHANGED <<subscribers, unsubFns, notifications, reqs, server, conn>>
    ]_vars

C10_Witness ==
  /\ last.act \in MutationActs
  /\ \E cb \in unsubFns : cb \notin Range(subscribers)
  /\ subscribers # <<>>
  /\ calls # <<>>

\* ---- optimistic marks: properties -------------------------------------------
AllRead(store) == \A k \in 1..Len(store) : store[k].status = "read"

HasId(store, n) == \E k \in 1..Len(store) : store[k].id = n

\* C17: the step in which markAsRead(id) is called changes the store (the
\* records with that id read, the rest as before) and invokes every
\* subscriber with the changed store, and leaves its POST in flight: the
\* request is resolved by a later step.
C17_MarkAsReadIsOptimistic ==
  [][ last'.act = "markAsRead"
        => /\ Len(notifications') = Len(notifications)
           /\ \A k \in 1..Len(notifications) :
                notifications'[k] = IF notifications[k].id = last'.n
                                    THEN [notifications[k] EXCEPT !.status = "read"]
                                    ELSE notifications[k]
           /\ Delivered(calls', subscribers, notifications')
           /\ Len(reqs') = Len(reqs) + 1
           /\ reqs'[Len(reqs')].kind = "mark"
           /\ reqs'[Len(reqs')].id = last'.n
           /\ ~reqs'[Len(reqs')].answered
           /\ server' = server ]_vars

C17_Witness ==
  /\ last.act = "markAsRead"
  /\ HasStatus(last.pre, last.n, "unread")
  /\ HasStatus(notifications, last.n, "read")
  /\ Len(calls) = 2
  /\ reqs # <<>>
  /\ reqs[Len(reqs)].kind = "mark"

\* C18: the step in which markAllAsRead() is called makes every record read,
\* keeps the records and their order, invokes every subscriber with that
\* all-read store and issues one POST; the step in which that POST rejects
\* puts back the sequence the call started from and invokes every subscriber
\* with it.
C18_MarkAllIsAtomic ==
  [][ /\ last'.act = "markAllAsRead"
           => /\ Len(notifications') = Len(notifications)
              /\ \A k \in 1..Len(notifications) :
                   notifications'[k] = [notifications[k] EXCEPT !.status = "read"]
              /\ Delivered(calls', subscribers, notifications')
              /\ \A k \in 1..Len(calls') : AllRead(calls'[k].snap)
              /\ Len(reqs') = Len(reqs) + 1
              /\ SelectSeq(reqs', LAMBDA r : r.kind = "markAll")
                   = Append(SelectSeq(reqs, LAMBDA r : r.kind = "markAll"),
                            Req("markAll", 0, notifications))
      /\ (last'.act = "postFail" /\ last'.cb = "markAll")
           => /\ \E i \in 1..Len(reqs) :
                   /\ reqs[i].kind = "markAll"
                   /\ reqs' = RemoveAt(reqs, i)
                   /\ notifications' = reqs[i].prev
              /\ Delivered(calls', subscribers, notifications') ]_vars

C18_Witness ==
  /\ last.act = "postFail"
  /\ last.cb = "markAll"
  /\ last.adj
  /\ Len(notifications) = 2
  /\ \A k \in 1..Len(notifications) : notifications[k].status = "unread"
  /\ subscribers # <<>>
  /\ calls # <<>>

\* C19: markAsRead(id) with an id no record of the store has leaves the
\* store as it is: in the step of the call, and in the step that resolves
\* its POST, whether it succeeds or fails.
C19_UnmatchedMarkIsNoOp ==
  [][ /\ (last'.act = "markAsRead" /\ ~HasId(notifications, last'.n))
           => notifications' = notifications
      /\ \A i \in 1..Len(reqs) :
           ( /\ reqs[i].kind = "mark"
             /\ ~HasId(reqs[i].prev, reqs[i].id)
             /\ reqs' = RemoveAt(reqs, i)
             /\ last'.act \in {"postOk", "postHttpError", "postFail"} )
             => notifications' = notifications ]_vars

\* ---- feed: properties --------------------------------------------------------
IsSortedDesc(store) ==
  \A j, k \in 1..Len(store) : j < k => store[j].ts >= store[k].ts

\* the store holds exactly the records of the response data
HoldsExactly(store, data) ==
  /\ {store[k].id : k \in 1..Len(store)} = {n \in NotifIds : data[n] # "none"}
  /\ \A j, k \in 1..Len(store) : store[j].id = store[k].id => j = k
  /\ \A k \in 1..Len(store) : store[k] = Rec(store[k].id, data[store[k].id])

\* C11: handling an inbound frame that is not valid JSON leaves the store,
\* the subscriber registry, the sockets, the handles, the flag and the
\* requests as they were and invokes no callback; the valid frame handled
\* next on the same socket is prepended to the store and delivered to every
\* subscriber.
C11_BadFrameIsDiscarded ==
  [][ /\ last'.act = "badMessage"
           => /\ notifications' = notifications
              /\ UNCHANGED <<subscribers, unsubFns, conn, reqs>>
              /\ calls' = <<>>
      /\ (last.act = "badMessage" /\ last'.act = "message" /\ last'.n = last.n)
           => /\ notifications' = <<Rec(Head(frames[last.n]), "unread")>> \o notifications
              /\ Delivered(calls', subscribers, notifications') ]_vars

C11_Witness ==
  /\ last.act = "badMessage"
  /\ sockets[last.n] = "open"
  /\ notifications # <<>>
  /\ subscribers # <<>>
  /\ frames[last.n] # <<>>
  /\ Len(notifications) < MaxStore

\* C12: the step that ends a fetch(), success or failure, invokes every
\* subscriber with the store as it then is.
C12_FetchAlwaysNotifies ==
  [][ last'.act \in {"fetchOk", "fetchFail"}
        => Delivered(calls', subscribers, notifications') ]_vars

\* C13: when a fetch() fails, by a network error, an unparseable body or a
\* body that is not an array, the store is the sequence it was and the call
\* is over: its request is gone and no other state changed.
C13_FailedFetchKeepsStore ==
  [][ last'.act = "fetchFail"
        => /\ last'.cb \in FetchFailures
           /\ notifications' = notifications
           /\ Len(reqs') = Len(reqs) - 1
           /\ UNCHANGED <<subscribers, unsubFns, conn, server>> ]_vars

C13_Witness ==
  /\ last.act = "fetchFail"
  /\ last.cb = "notArray"
  /\ notifications # <<>>
  /\ server # NoData

\* C14: when a fetch() succeeds, the store is exactly the records of the
\* response, ordered by descending timestamp whatever order the backend
\* listed them in.
C14_FetchSortsByTimestamp ==
  [][ last'.act = "fetchOk"
        => /\ IsSortedDesc(notifications')
           /\ \E i \in 1..Len(reqs) :
                /\ reqs[i].kind = "fetch"
                /\ reqs[i].answered
                /\ reqs' = RemoveAt(reqs, i)
                /\ HoldsExactly(notifications', reqs[i].data) ]_vars

\* ---- reconnect: properties ---------------------------------------------------
\* a connection attempt that constructed a socket, or a disconnect(); the
\* model constructs no socket beyond MaxSockets
AttemptOrDisconnect ==
  \/ last.act \in {"connect", "timer"} /\ last.cb = "constructed"
  \/ last.act = "disconnect"
  \/ NextSock > MaxSockets

\* C15: after every close event of a socket that disconnect() did not close,
\* a connection attempt that constructs a new socket eventually happens,
\* unless disconnect() is called first.
C15_ReconnectsAfterEveryDrop ==
  [](( last.act = "close" /\ last.cb = "dropped" ) => <>AttemptOrDisconnect)

\* C16: right after a close event is handled the flag says disconnected and
\* the socket handle is null.
C16_CloseClearsHandle ==
  last.act = "close" => (~isConnected /\ ws = Null)

\* C20: connect("superadmin") called while no socket exists issues a
\* GET /notifications in the same call, before any open event.
C20_ConnectFetchesImmediately ==
  [][ (last'.act = "connect" /\ last'.role = "superadmin" /\ ws = Null)
        => /\ Len(reqs') = Len(reqs) + 1
           /\ reqs'[Len(reqs')].kind = "fetch" ]_vars

\* ---- late subscribers, duplicates, stale events: properties -----------------
\* C22: subscribe(callback) invokes callback once, and nothing else, with the
\* store as it is, appends it after the callbacks already registered and
\* leaves the store, the requests and the connection as they were.
C22_SubscribeDeliversSnapshot ==
  [][ last'.act = "subscribe"
        => /\ calls' = <<[cb |-> last'.cb, snap |-> notifications]>>
           /\ notifications' = notifications
           /\ subscribers' = Append(subscribers, last'.cb)
           /\ UNCHANGED <<reqs, server, conn>> ]_vars

C22_Witness ==
  /\ last.act = "subscribe"
  /\ notifications # <<>>
  /\ Len(subscribers) = 2
  /\ subscribers[2] = last.cb
  /\ Len(calls) = 1

\* C25: when a socket frame is handled while a markAsRead / markAllAsRead is
\* in flight and the POST of that mark then rejects, the record the frame
\* prepended is still in the store.
C25_RollbackKeepsFrames ==
  [][ (last.act = "message" /\ last'.act = "postFail")
        => HasId(notifications', notifications[1].id) ]_vars

\* C26: no two records of the store have the same id.
C26_NoDuplicateIds ==
  \A j, k \in 1..Len(notifications) :
    notifications[j].id = notifications[k].id => j = k

\* C27: the flag is true only while the handle refers to an open socket, and
\* the open or close event of a socket the handle does not refer to changes
\* neither the flag nor the handle.
C27_FlagFollowsCurrentSocket ==
  [][ /\ isConnected' => (ws' # Null /\ sockets'[ws'] = "open")
      /\ (last'.act \in {"open", "close"} /\ last'.n # ws)
           => (isConnected' = isConnected /\ ws' = ws) ]_vars

\* ---- racing requests: properties -----------------------------------------
\* C24: when the POST of markAsRead(id) has just succeeded and the POST of
\* another mark, in flight at the same time, then rejects, the record with
\* that id is not turned back to unread.
C24_SucceededMarkSurvivesRollback ==
  [][ ( /\ last.act = "postOk"
        /\ last.cb = "mark"
        /\ HasStatus(notifications, last.n, "read")
        /\ last'.act = "postFail" )
        => ~HasStatus(notifications', last.n, "unread") ]_vars

\* C28: when two fetches are in flight and the one issued last resolves
\* first, the store still holds that response after the other has resolved.
C28_LastIssuedFetchWins ==
  [][ ( /\ last.act = "fetchOk"
        /\ last.adj
        /\ last'.act = "fetchOk"
        /\ \A i \in 1..Len(reqs') : reqs'[i].kind # "fetch" )
        => notifications' = notifications ]_vars

\* ---- two components on the singleton: properties --------------------------
\* a component is mounted and the service has a socket that is connecting
\* or open, or all components are gone; the model constructs no socket
\* beyond MaxSockets and no timer beyond MaxTimers
FedOrGone ==
  \/ \E s \in SockIds : Live(s)
  \/ subscribers = <<>>
  \/ NextSock > MaxSockets
  \/ timersMade >= MaxTimers

\* C29: when one of two mounted components unmounts, the callback of the
\* other stays registered, and a socket that is connecting or open exists
\* or eventually exists again for as long as that component stays mounted.
C29_RemainingComponentStaysFed ==
  /\ [][ last'.act = "unmount"
          => \A cb \in Range(subscribers) \ {last'.cb} : cb \in Range(subscribers') ]_vars
  /\ []( (last.act = "unmount" /\ subscribers # <<>>) => <>FedOrGone )

\* ---- disconnect: properties ----------------------------------------------
\* C23: disconnect() leaves the store, the subscriber registry, the requests
\* in flight and the backend as they were and invokes no subscriber; a GET
\* response that is handled afterwards, whatever the connection state,
\* replaces the store by the records of the response and invokes every
\* subscriber with it.
C23_DisconnectKeepsStoreAndRequests ==
  [][ /\ last'.act = "disconnect"
           => /\ UNCHANGED <<notifications, subscribers, unsubFns, reqs, server>>
              /\ calls' = <<>>
              /\ ws' = Null
      /\ last'.act = "fetchOk"
           => /\ \E i \in 1..Len(reqs) :
                   /\ reqs[i].kind = "fetch"
                   /\ reqs[i].answered
                   /\ reqs' = RemoveAt(reqs, i)
                   /\ HoldsExactly(notifications', reqs[i].data)
              /\ Delivered(calls', subscribers, notifications') ]_vars

C23_Witness ==
  /\ last.act = "fetchOk"
  /\ ws = Null
  /\ ~isConnected
  /\ \A s \in SockIds : sockets[s] \notin {"connecting", "open"}
  /\ notifications # <<>>
  /\ Len(calls) = 2

\* ---- malformed base URL: properties --------------------------------------
\* C21: connect("superadmin") on a service whose base URL is malformed
\* constructs no socket, leaves the handle and the flag as they were and
\* returns normally.
C21_MalformedUrlFailsClosed ==
  [][ (last'.act = "connect" /\ last'.role = "superadmin" /\ ~UrlParses(apiUrl))
        => /\ sockets' = sockets
           /\ ws' = ws
           /\ isConnected' = isConnected
           /\ last'.cb # "threw" ]_vars

\* ---- Sidebar effect: properties ------------------------------------------
\* C30: once the cleanup of a run of the Sidebar effect has run, that run
\* has no pending reconnect timer and no heartbeat interval, and no later
\* step constructs a socket, sets a timer or starts an interval for it.
C30_SidebarCleanupIsFinal ==
  [][ \A e \in EffectIds :
        /\ sidebar'[e].phase = "cleaned"
             => (sidebar'[e].timers = 0 /\ sidebar'[e].intervals = {})
        /\ sidebar[e].phase = "cleaned"
             => /\ Len(sidebar'[e].socks) = Len(sidebar[e].socks)
                /\ sidebar'[e].timers <= sidebar[e].timers
                /\ sidebar'[e].intervals \subseteq sidebar[e].intervals ]_vars
====
